---- MODULE Spec2Model ----
(***************************************************************************)
(* SnackTime-Pet: the serial device link (SerialService) and the state     *)
(* reconciliation done by the App component, for both App variants of the  *)
(* repository: src/App.tsx ("App") and src/unnamed/part_000 ("part_000").  *)
(*                                                                         *)
(* Text is a sequence of one-character strings.  A React state update and  *)
(* the render and effects it schedules are part of the step of the handler *)
(* that made it (updates of one handler run are batched into one render).  *)
(* Log entries are modelled without their wall-clock prefix.               *)
(***************************************************************************)
EXTENDS Integers, Sequences, FiniteSets, Bags, TLC

VARIABLES
  variant,   \* which App component is mounted: "App" or "part_000"
  app,       \* the App component's React state, refs and interval
  svc,       \* the SerialService singleton: port, writer, reader, lineBuffer
  hw,        \* the transport objects behind navigator.serial
  tasks,     \* suspended async calls (a bag of continuations)
  now,       \* Date.now(), in milliseconds
  dev,       \* a device that plays one fixed byte stream (framing only)
  ev         \* what the last step did (observation only)

vars == <<variant, app, svc, hw, tasks, now, dev, ev>>

----------------------------------------------------------------------------
(* Bounds of the model *)

MaxLog      == 3      \* a handler that logs runs only while fewer entries are logged
MaxSessions == 2      \* connect attempts that reach port.open()
MaxTasks    == 2      \* suspended async calls at one time
MaxMinutes  == 2      \* whole minutes the clock advances
MaxHalves   == 3      \* half seconds the clock advances within a minute
MaxBuffer   == 4      \* characters kept pending in lineBuffer

----------------------------------------------------------------------------
(* Program constants *)

Null              == 0       \* null of lastSnackTime / port / writer / reader
DEFAULT_LIMIT     == 5
DEFAULT_LOCK_TIME == 2
LogCap            == 30
VisitCap          == 20
TickMs            == 1000

----------------------------------------------------------------------------
(* Text *)

NL == "\n"

L_REMAINING_0   == <<"R", "E", "M", "A", "I", "N", "I", "N", "G", ":", "0">>
L_REMAINING_2   == <<"R", "E", "M", "A", "I", "N", "I", "N", "G", ":", "2">>
L_REMAINING_3   == <<"R", "E", "M", "A", "I", "N", "I", "N", "G", ":", "3">>
L_REMAINING_5   == <<"R", "E", "M", "A", "I", "N", "I", "N", "G", ":", "5">>
L_REMAINING_abc == <<"R", "E", "M", "A", "I", "N", "I", "N", "G", ":", "a", "b", "c">>
L_REMAINING_2x  == <<"R", "E", "M", "A", "I", "N", "I", "N", "G", ":", "2", "x">>
L_REMAINING_neg1 == <<"R", "E", "M", "A", "I", "N", "I", "N", "G", ":", "-", "1">>
L_XREMAINING_3  == <<"X", "R", "E", "M", "A", "I", "N", "I", "N", "G", ":", "3">>
L_HELLO         == <<"H", "E", "L", "L", "O">>
L_LOCKED        == <<"L", "O", "C", "K", "E", "D">>
L_UNLOCKED      == <<"U", "N", "L", "O", "C", "K", "E", "D">>
L_AUTO_UNLOCKED == <<"A", "U", "T", "O", " ", "U", "N", "L", "O", "C", "K", "E", "D">>
K_REMAINING     == <<"R", "E", "M", "A", "I", "N", "I", "N", "G", ":">>

Max(a, b) == IF a >= b THEN a ELSE b
Min(a, b) == IF a <= b THEN a ELSE b

IsSpace(c) == c \in {" ", "\t", "\r", "\n"}

RECURSIVE trimStart(_)
trimStart(s) ==
  IF s = <<>> THEN <<>>
  ELSE IF IsSpace(Head(s)) THEN trimStart(Tail(s)) ELSE s

RECURSIVE trimEnd(_)
trimEnd(s) ==
  IF s = <<>> THEN <<>>
  ELSE IF IsSpace(s[Len(s)]) THEN trimEnd(SubSeq(s, 1, Len(s) - 1)) ELSE s

\* String.prototype.trim
trim(s) == trimEnd(trimStart(s))

\* String.prototype.includes
includes(s, sub) ==
  \E i \in 1..(Len(s) - Len(sub) + 1) : SubSeq(s, i, i + Len(sub) - 1) = sub

\* String.prototype.split with a one-character separator: the pieces, in
\* order; a text with no separator is one piece, the empty text too.
RECURSIVE split(_, _)
split(s, sep) ==
  IF \A i \in 1..Len(s) : s[i] # sep THEN <<s>>
  ELSE LET i == CHOOSE k \in 1..Len(s) : s[k] = sep /\ \A j \in 1..(k - 1) : s[j] # sep
       IN  <<SubSeq(s, 1, i - 1)>> \o split(SubSeq(s, i + 1, Len(s)), sep)

Digits == {"0", "1", "2", "3", "4", "5", "6", "7", "8", "9"}

DigitVal(c) ==
  CASE c = "0" -> 0 [] c = "1" -> 1 [] c = "2" -> 2 [] c = "3" -> 3 [] c = "4" -> 4
    [] c = "5" -> 5 [] c = "6" -> 6 [] c = "7" -> 7 [] c = "8" -> 8 [] c = "9" -> 9

\* the value of the longest prefix of decimal digits of s, continuing acc
RECURSIVE digitsPrefix(_, _)
digitsPrefix(s, acc) ==
  IF s = <<>> \/ Head(s) \notin Digits THEN acc
  ELSE digitsPrefix(Tail(s), acc * 10 + DigitVal(Head(s)))

\* parseInt(text): leading white space is skipped, one sign is accepted, then
\* the longest run of digits is read and whatever follows it is ignored; with
\* no digit there the result is NaN.
parseInt(s) ==
  LET t    == trimStart(s)
      neg  == t # <<>> /\ Head(t) = "-"
      body == IF t # <<>> /\ Head(t) \in {"-", "+"} THEN Tail(t) ELSE t
  IN  IF body = <<>> \/ Head(body) \notin Digits
        THEN [nan |-> TRUE, val |-> 0]
        ELSE [nan |-> FALSE,
              val |-> IF neg THEN 0 - digitsPrefix(body, 0) ELSE digitsPrefix(body, 0)]

----------------------------------------------------------------------------
(* SerialService.readLoop: framing of one chunk *)

\* variation of framePending: the text after the last newline is dropped
framePending_dropsTail(buf) == <<>>

\* lines.pop() || "" : the text after the last newline stays pending
framePending(buf) == LET lines == split(buf, NL) IN lines[Len(lines)]

\* the lines of lineBuffer that are complete, as split('\n') returns them
frameLines(buf) == LET lines == split(buf, NL) IN SubSeq(lines, 1, Len(lines) - 1)

\* variation of emitted: blank lines are delivered too
RECURSIVE emitted_keepsBlank(_)
emitted_keepsBlank(lines) ==
  IF lines = <<>> THEN <<>>
  ELSE <<trim(Head(lines))>> \o emitted_keepsBlank(Tail(lines))

\* for (const line of lines) if (line.trim()) onData(line.trim())
RECURSIVE emitted(_)
emitted(lines) ==
  IF lines = <<>> THEN <<>>
  ELSE IF trim(Head(lines)) # <<>>
         THEN <<trim(Head(lines))>> \o emitted(Tail(lines))
         ELSE emitted(Tail(lines))

----------------------------------------------------------------------------
(* The App component: state, effects, handlers *)

Truthy(x) == x # Null /\ x # 0

\* variation of addLog: the last 30 kept
addLog_keepsOldest(a, entry) ==
  LET all == <<entry>> \o a.logs IN
  [a EXCEPT !.logs = SubSeq(all, Max(1, Len(all) - LogCap + 1), Len(all))]

\* addLog: newest first, the first 30 kept
addLog(a, entry) ==
  [a EXCEPT !.logs = SubSeq(<<entry>> \o a.logs, 1, Min(LogCap, Len(a.logs) + 1))]

\* setVisitHistory(prev => [newVisit, ...prev].slice(0, 20))
addVisit(a, visit) ==
  [a EXCEPT !.visitHistory =
     SubSeq(<<visit>> \o a.visitHistory, 1, Min(VisitCap, Len(a.visitHistory) + 1))]

\* variation of cooldownRemaining: the duration taken as seconds
cooldownRemaining_seconds(a, t) ==
  a.lockDuration - (t - a.lastSnackTime) \div 1000

\* the interval callback's arithmetic at time t
cooldownRemaining(a, t) ==
  LET elapsedSeconds       == (t - a.lastSnackTime) \div 1000
      totalCooldownSeconds == a.lockDuration * 60
  IN  totalCooldownSeconds - elapsedSeconds

\* the callback of setInterval, run at time t
updateCooldown(v, a, t) ==
  LET remaining == cooldownRemaining(a, t) IN
  IF v = "App"
    THEN IF remaining <= 0
           THEN [a EXCEPT !.cooldownSeconds = 0, !.interval = Null]  \* clearInterval
           ELSE [a EXCEPT !.cooldownSeconds = remaining]
    ELSE IF remaining <= 0
           THEN [a EXCEPT !.cooldownSeconds = 0]
           ELSE [a EXCEPT !.cooldownSeconds = remaining]

\* useEffect(..., [lastSnackTime, lockDuration]): runs when a dependency differs
\* from the render before (pAnchor, pDuration); its cleanup clears the interval.
cooldownEffect(v, a, pAnchor, pDuration, t) ==
  IF a.lastSnackTime = pAnchor /\ a.lockDuration = pDuration THEN a
  ELSE IF Truthy(a.lastSnackTime) /\ a.lockDuration > 0
         THEN IF v = "App"
                THEN [a EXCEPT !.interval = t]
                ELSE [updateCooldown(v, a, t) EXCEPT !.interval = t]
         ELSE IF v = "App"
                THEN [a EXCEPT !.interval = Null]
                ELSE [a EXCEPT !.interval = Null, !.cooldownSeconds = 0]

\* useEffect(..., [count, addLog]): the visit-tracking effect
visitEffect(v, a, pCount, t) ==
  IF a.count = pCount THEN a
  ELSE IF a.count > a.prevCount
         THEN LET b == IF v = "App" THEN [a EXCEPT !.lastSnackTime = t] ELSE a
                  c == addVisit(b, [id |-> t, count |-> a.count])
                  d == addLog(c, <<"Visit recorded: ", a.count, a.visitLimitRef>>)
              IN  [d EXCEPT !.prevCount = a.count]
         ELSE [a EXCEPT !.prevCount = a.count]

\* The render after a handler: the effects whose dependencies changed since the
\* render before (state prev), then the render the visit effect's own updates
\* cause.
commit(v, a, prev, t) ==
  LET a1 == cooldownEffect(v, a, prev.lastSnackTime, prev.lockDuration, t)
      a2 == visitEffect(v, a1, prev.count, t)
  IN  cooldownEffect(v, a2, a1.lastSnackTime, a1.lockDuration, t)

\* setLastSnackTime(prev => prev || Date.now())
keepOrStart(prev, t) == IF Truthy(prev) THEN prev ELSE t

\* variation of onRemaining: the limit captured when the page was built
onRemaining_capturedLimit(v, a, remaining, t) ==
  LET b == [a EXCEPT !.count = Max(0, DEFAULT_LIMIT - remaining)]
  IN  IF remaining = 0 THEN [b EXCEPT !.isLocked = TRUE]
      ELSE [b EXCEPT !.isLocked = FALSE, !.lastSnackTime = Null]

\* onData, the REMAINING branch once parseInt gave the number remaining:
\* the count from the live limit, the lock and its anchor
onRemaining(v, a, remaining, t) ==
  LET newCount == Max(0, a.visitLimitRef - remaining)
      b == [a EXCEPT !.count = newCount]
  IN  IF v = "App"
        THEN IF remaining = 0 THEN [b EXCEPT !.isLocked = TRUE] ELSE b
        ELSE IF remaining = 0
               THEN [b EXCEPT !.isLocked = TRUE,
                              !.lastSnackTime = keepOrStart(a.lastSnackTime, t)]
               ELSE [b EXCEPT !.isLocked = FALSE, !.lastSnackTime = Null]

\* onData, msg === 'LOCKED'
onLocked(v, a, t) ==
  IF v = "App"
    THEN [a EXCEPT !.isLocked = TRUE]
    ELSE [a EXCEPT !.isLocked = TRUE,
                   !.lastSnackTime = keepOrStart(a.lastSnackTime, t)]

\* variation of onUnlocked: the cooldown shown is kept
onUnlocked_keepsCooldown(v, a) ==
  LET b == [a EXCEPT !.isLocked = FALSE, !.count = 0, !.lastSnackTime = Null]
  IN  IF v = "App" THEN b
      ELSE addLog(b, <<"Device confirmed: System Unlocked">>)

\* variation of onUnlocked: the count is kept
onUnlocked_keepsCount(v, a) ==
  [a EXCEPT !.isLocked = FALSE, !.lastSnackTime = Null, !.cooldownSeconds = 0]

\* onData, msg === 'UNLOCKED'
onUnlocked(v, a) ==
  LET b == [a EXCEPT !.isLocked = FALSE, !.count = 0,
                     !.lastSnackTime = Null, !.cooldownSeconds = 0]
  IN  IF v = "App" THEN b
      ELSE addLog(b, <<"Device confirmed: System Unlocked">>)

\* the messages onData compares msg with
isUnlockedMsg(msg) == msg = L_UNLOCKED

\* the onData callback handleConnect passes to readLoop
onData(v, a, data, t) ==
  LET msg == trim(data)
      upd ==
        IF includes(msg, K_REMAINING)
          THEN LET parts == split(msg, ":") IN
               IF Len(parts) > 1
                 THEN LET remaining == parseInt(parts[2]) IN
                      IF ~remaining.nan
                        THEN onRemaining(v, a, remaining.val, t)
                        ELSE a
                 ELSE a
        ELSE IF msg = L_LOCKED THEN onLocked(v, a, t)
        ELSE IF isUnlockedMsg(msg) THEN onUnlocked(v, a)
        ELSE a
  IN  addLog(upd, <<"Device: ", msg>>)

\* onData for each emitted line of one chunk, in order
RECURSIVE onDataAll(_, _, _, _)
onDataAll(v, a, lines, t) ==
  IF lines = <<>> THEN a
  ELSE onDataAll(v, onData(v, a, Head(lines), t), Tail(lines), t)

----------------------------------------------------------------------------
(* State after construction *)

Devices == {1, 2}       \* the serial ports the chooser can return
Epoch   == 1000         \* Date.now() when the page loads

InitApp ==
  [isConnected       |-> FALSE,
   isConnecting      |-> FALSE,
   currentMode       |-> "AUTO",
   visitLimit        |-> DEFAULT_LIMIT,
   limitInput        |-> DEFAULT_LIMIT,
   lockDuration      |-> DEFAULT_LOCK_TIME,
   lockDurationInput |-> DEFAULT_LOCK_TIME,
   lastSnackTime     |-> Null,
   cooldownSeconds   |-> 0,
   logs              |-> <<>>,
   visitHistory      |-> <<>>,
   isLocked          |-> FALSE,
   count             |-> 0,
   visitLimitRef     |-> DEFAULT_LIMIT,
   prevCount         |-> 0,
   interval          |-> Null]       \* start time of the running setInterval

InitSvc == [port |-> Null, writer |-> Null, reader |-> Null, lineBuffer |-> <<>>]

\* open: the ports that are open; nsess: readers/writers handed out so far
\* (reader n and writer n belong to port sessPort[n]); cancelled / released:
\* the readers whose cancel() / releaseLock() was called.
InitHw ==
  [open      |-> [d \in Devices |-> FALSE],
   nsess     |-> 0,
   sessPort  |-> <<>>,
   cancelled |-> {},
   released  |-> {}]

NoEv ==
  [op |-> "none", lines |-> <<>>, wrote |-> <<>>, finished |-> FALSE,
   teardown |-> <<>>, threw |-> FALSE]

\* sent: the stream, wire: what is still to come, heard: the lines onData got
NoDev == [sent |-> <<>>, wire |-> <<>>, heard |-> <<>>]

Task(kind, pc, by, obj, ops) ==
  [kind |-> kind, pc |-> pc, by |-> by, obj |-> obj, ops |-> ops]

Init ==
  /\ variant \in {"App", "part_000"}
  /\ app = InitApp
  /\ svc = InitSvc
  /\ hw = InitHw
  /\ tasks = EmptyBag
  /\ now = Epoch
  /\ dev = NoDev
  /\ ev = NoEv

----------------------------------------------------------------------------
(* SerialService.disconnect *)

\* catch (e) { } of disconnect: what leaves the try block
\* variation of catchDisconnect: the error is thrown on
catchDisconnect_rethrows(thrown) == thrown

catchDisconnect(thrown) == FALSE

\* variation of finallyDisconnect: the pending text is kept
finallyDisconnect_keepsBuffer(s) == [InitSvc EXCEPT !.lineBuffer = s.lineBuffer]

\* finally { port = writer = reader = null; lineBuffer = "" }
finallyDisconnect(s) == InitSvc

\* A run of disconnect that reached its end: the service after it, no task.
disconnectEnd(s, h, ops, thrown) ==
  [svc |-> finallyDisconnect(s), hw |-> h, task |-> EmptyBag, finished |-> TRUE,
   ops |-> ops, threw |-> catchDisconnect(thrown)]

\* if (this.writer) releaseLock; if (this.port) await close: up to the await
disconnectWriterPort(s, h, by, ops, failW) ==
  IF s.writer # Null /\ failW
    THEN disconnectEnd(s, h, ops \o <<"releaseWriter">>, TRUE)
    ELSE LET ops1 == IF s.writer # Null THEN ops \o <<"releaseWriter">> ELSE ops IN
         IF s.port # Null
           THEN [svc |-> s, hw |-> h,
                 task |-> SetToBag({Task("disconnect", "close", by, s.port,
                                         ops1 \o <<"close">>)}),
                 finished |-> FALSE, ops |-> ops1 \o <<"close">>, threw |-> FALSE]
           ELSE disconnectEnd(s, h, ops1, FALSE)

\* disconnect() from its call to its first await
disconnectBegin(s, h, by, failW) ==
  IF s.reader # Null
    THEN [svc |-> s,
          hw |-> [h EXCEPT !.cancelled = @ \cup {s.reader}],
          task |-> SetToBag({Task("disconnect", "cancel", by, s.reader, <<"cancel">>)}),
          finished |-> FALSE, ops |-> <<"cancel">>, threw |-> FALSE]
    ELSE disconnectWriterPort(s, h, by, <<>>, failW)

\* after await this.reader.cancel().catch(...): this.reader.releaseLock() and on
disconnectAfterCancel(s, h, by, ops, failR, failW) ==
  IF s.reader = Null \/ failR
    THEN disconnectEnd(s, h, ops \o <<"releaseReader">>, TRUE)
    ELSE disconnectWriterPort(s, [h EXCEPT !.released = @ \cup {s.reader}], by,
                              ops \o <<"releaseReader">>, failW)

\* after await this.port.close().catch(...): the port is closed unless close failed
disconnectAfterClose(s, h, d, ops, failC) ==
  disconnectEnd(s, IF failC THEN h ELSE [h EXCEPT !.open[d] = FALSE], ops, FALSE)

----------------------------------------------------------------------------
(* App handlers *)

\* variation of onError: the page stays connected
onError_staysConnected(v, a) ==
  addLog(a, IF v = "App" THEN <<"Error: ", "Connection lost">>
                         ELSE <<"Connection Lost: ", "Check pairing">>)

\* onError of handleConnect
onError(v, a) ==
  addLog([a EXCEPT !.isConnected = FALSE],
         IF v = "App" THEN <<"Error: ", "Connection lost">>
                      ELSE <<"Connection Lost: ", "Check pairing">>)

\* handleConnect after await serialService.disconnect()
afterDisconnect(v, a) ==
  addLog([a EXCEPT !.isConnected = FALSE],
         IF v = "App" THEN <<"Disconnected">> ELSE <<"Disconnected by user">>)

\* handleConnect after connect() returned true, up to the call of readLoop
afterConnectOk(v, a) ==
  addLog([a EXCEPT !.isConnected = TRUE, !.isConnecting = FALSE],
         IF v = "App" THEN <<"Secure Link Established">> ELSE <<"Linked at baud">>)

\* handleConnect after connect() returned false
afterConnectFail(v, a) ==
  IF v = "App" THEN a
  ELSE addLog([a EXCEPT !.isConnecting = FALSE], <<"Connection failed.">>)

Modes == {"AUTO", "MANUAL", "NORMAL"}

\* variation of encode: no terminator
encode_bare(cmd) == cmd

\* TextEncoder.encode(cmd + '\n'): the command's text, then one newline
encode(cmd) == cmd \o <<NL>>

\* SerialService.sendCommand: what reaches the writer ("" when there is none),
\* and whether the call throws
serviceWrote(s, cmd) == IF s.writer = Null THEN <<>> ELSE encode(cmd)
serviceThrows(s, writeOk) == s.writer # Null /\ ~writeOk

\* variation of sendCommand: every command that is no mode resets the lock state
sendCommand_resets(v, a, s, cmd, writeOk, t) ==
  IF ~a.isConnected THEN a
  ELSE IF serviceThrows(s, writeOk)
    THEN addLog(a, IF v = "App" THEN <<"Send failed">> ELSE <<"Failed to send command">>)
  ELSE LET b == addLog(a, <<IF v = "App" THEN "Cmd: " ELSE "Sent: ", cmd>>) IN
       IF Len(cmd) = 1 /\ cmd[1] \in Modes
         THEN [b EXCEPT !.currentMode = cmd[1]]
         ELSE [b EXCEPT !.isLocked = FALSE, !.count = 0, !.lastSnackTime = Null]

\* the App's sendCommand; writeOk: whether writer.write succeeds
sendCommand(v, a, s, cmd, writeOk, t) ==
  IF ~a.isConnected THEN a
  ELSE IF serviceThrows(s, writeOk)
    THEN addLog(a, IF v = "App" THEN <<"Send failed">> ELSE <<"Failed to send command">>)
  ELSE LET b == addLog(a, <<IF v = "App" THEN "Cmd: " ELSE "Sent: ", cmd>>) IN
       IF Len(cmd) = 1 /\ cmd[1] \in Modes
         THEN [b EXCEPT !.currentMode = cmd[1]]
       ELSE IF v = "App" THEN b
       ELSE IF cmd = <<"UNLOCK">>
         THEN addLog([b EXCEPT !.isLocked = FALSE, !.count = 0,
                        !.lastSnackTime = Null, !.cooldownSeconds = 0],
                     <<"System Override: States Reset">>)
       ELSE IF cmd = <<"OPEN">> /\ a.count + 1 >= a.visitLimit
         THEN [b EXCEPT !.isLocked = TRUE, !.lastSnackTime = t]
       ELSE b

\* disabled={!canDispense} of the Release Snack button
canDispense(v, a) ==
  IF v = "App"
    THEN a.isConnected /\ ~a.isLocked /\ ~(a.cooldownSeconds > 0)
    ELSE a.isConnected /\ ~a.isLocked /\ ~(a.count >= a.visitLimit)

\* onChange of a PolicyCard input: parseInt(e.target.value) || 0
onChangeValue(text) ==
  LET p == parseInt(text) IN IF p.nan \/ p.val = 0 THEN 0 ELSE p.val

----------------------------------------------------------------------------
(* Actions *)

Ev(op) == [NoEv EXCEPT !.op = op]

HasTask(t) == BagIn(t, tasks)

\* a handler that logs is started only while the log holds fewer than MaxLog
\* entries more than the base entries it started with
LogRoom(base) == Len(app.logs) < base + MaxLog

\* a chunk is delivered only while it leaves at most MaxBuffer characters pending
BufferRoom(c) == Len(framePending(svc.lineBuffer \o c)) <= MaxBuffer

\* what a run of disconnect that ended in this step leaves in ev
EvEnd(op, r) ==
  [Ev(op) EXCEPT !.finished = r.finished,
                 !.teardown = IF r.finished THEN r.ops ELSE <<>>,
                 !.threw = r.threw]

\* The user clicks the header button while the page shows "connected":
\* handleConnect's first branch, up to the first await inside disconnect.
ClickDisconnect(failW) ==
  /\ app.isConnected
  /\ BagCardinality(tasks) < MaxTasks
  /\ LET r == disconnectBegin(svc, hw, "user", failW) IN
       /\ svc' = r.svc
       /\ hw' = r.hw
       /\ tasks' = tasks (+) r.task
       /\ app' = IF r.finished
                   THEN commit(variant, afterDisconnect(variant, app), app, now)
                   ELSE app
       /\ ev' = EvEnd("clickDisconnect", r)
  /\ UNCHANGED <<dev, variant, now>>

\* handleConnect's second branch before connect() is called
beginConnect(v, a) ==
  IF v = "App" THEN a
  ELSE addLog([a EXCEPT !.isConnecting = TRUE], <<"Opening device selector...">>)

\* The user clicks the header button while the page shows "not connected":
\* handleConnect's second branch, up to await navigator.serial.requestPort().
ClickConnect ==
  /\ ~app.isConnected
  /\ variant = "part_000" => ~app.isConnecting        \* disabled={isConnecting}
  /\ \A t \in BagToSet(tasks) : t.pc # "requestPort"  \* the chooser is modal
  /\ BagCardinality(tasks) < MaxTasks
  /\ tasks' = tasks (+) SetToBag({Task("connect", "requestPort", "user", Null, <<>>)})
  /\ app' = commit(variant, beginConnect(variant, app), app, now)
  /\ ev' = Ev("clickConnect")
  /\ UNCHANGED <<dev, variant, svc, hw, now>>

\* requestPort() resolves with port d: this.port = d, then await port.open()
PortChosen(d) ==
  /\ HasTask(Task("connect", "requestPort", "user", Null, <<>>))
  /\ hw.nsess < MaxSessions
  /\ tasks' = (tasks (-) SetToBag({Task("connect", "requestPort", "user", Null, <<>>)}))
                (+) SetToBag({Task("connect", "open", "user", d, <<>>)})
  /\ svc' = [svc EXCEPT !.port = d]
  /\ ev' = Ev("portChosen")
  /\ UNCHANGED <<dev, variant, app, hw, now>>

\* requestPort() rejects (the chooser is dismissed): connect returns false
PortRefused ==
  /\ HasTask(Task("connect", "requestPort", "user", Null, <<>>))
  /\ tasks' = tasks (-) SetToBag({Task("connect", "requestPort", "user", Null, <<>>)})
  /\ app' = commit(variant, afterConnectFail(variant, app), app, now)
  /\ ev' = Ev("portRefused")
  /\ UNCHANGED <<dev, variant, svc, hw, now>>

\* port.open() of port d resolves: getWriter, getReader, return true; then
\* handleConnect marks the page connected and calls readLoop, which suspends in
\* its first read.  getWriter is taken from this.port, which must still be d.
OpenResolved(d) ==
  /\ HasTask(Task("connect", "open", "user", d, <<>>))
  /\ ~hw.open[d]
  /\ LET n  == hw.nsess + 1
         h1 == [hw EXCEPT !.open[d] = TRUE] IN
     IF svc.port = d
       THEN /\ hw' = [h1 EXCEPT !.nsess = n, !.sessPort = @ \o <<d>>]
            /\ svc' = [svc EXCEPT !.writer = n, !.reader = n]
            /\ tasks' = (tasks (-) SetToBag({Task("connect", "open", "user", d, <<>>)}))
                          (+) SetToBag({Task("readLoop", "read", "loop", n, <<>>)})
            /\ app' = commit(variant, afterConnectOk(variant, app), app, now)
            /\ ev' = Ev("connected")
       ELSE /\ hw' = h1
            /\ svc' = svc
            /\ tasks' = tasks (-) SetToBag({Task("connect", "open", "user", d, <<>>)})
            /\ app' = commit(variant, afterConnectFail(variant, app), app, now)
            /\ ev' = Ev("connectFailed")
  /\ UNCHANGED <<dev, variant, now>>

\* port.open() of port d rejects (the port is open already, or the device
\* refuses): connect returns false and leaves this.port as it is
OpenRejected(d) ==
  /\ HasTask(Task("connect", "open", "user", d, <<>>))
  /\ tasks' = tasks (-) SetToBag({Task("connect", "open", "user", d, <<>>)})
  /\ app' = commit(variant, afterConnectFail(variant, app), app, now)
  /\ ev' = Ev("connectFailed")
  /\ UNCHANGED <<dev, variant, svc, hw, now>>

\* A reader that can still deliver: its port is open, it was neither
\* cancelled nor released.
Live(n) ==
  /\ hw.open[hw.sessPort[n]]
  /\ n \notin hw.cancelled
  /\ n \notin hw.released

\* The read of reader n resolves with chunk c: one pass of readLoop's body,
\* then the next this.reader.read(), which throws into the catch block when
\* this.reader is null.
ReadBody(n, c, failW) ==
  /\ HasTask(Task("readLoop", "read", "loop", n, <<>>))
  /\ Live(n)
  /\ LET buf   == svc.lineBuffer \o c
         lines == emitted(frameLines(buf))
         s1    == [svc EXCEPT !.lineBuffer = framePending(buf)]
         a1    == onDataAll(variant, app, lines, now)
         rest  == tasks (-) SetToBag({Task("readLoop", "read", "loop", n, <<>>)})
     IN  /\ IF svc.reader # Null
              THEN /\ svc' = s1
                   /\ hw' = hw
                   /\ tasks' = rest (+) SetToBag({Task("readLoop", "read", "loop",
                                                       svc.reader, <<>>)})
                   /\ app' = commit(variant, a1, app, now)
                   /\ ev' = [Ev("read") EXCEPT !.lines = lines]
              ELSE LET r == disconnectBegin(s1, hw, "loop", failW) IN
                   /\ svc' = r.svc
                   /\ hw' = r.hw
                   /\ tasks' = rest (+) r.task
                   /\ app' = commit(variant, onError(variant, a1), app, now)
                   /\ ev' = [EvEnd("read", r) EXCEPT !.lines = lines]
  /\ UNCHANGED <<variant, now>>

ReadChunk(n, c, failW) == ReadBody(n, c, failW) /\ UNCHANGED dev

\* The read of reader n resolves with done (the reader was cancelled, or the
\* stream ended): break, then finally { this.disconnect() } up to its first await.
ReadDone(n, failW) ==
  /\ HasTask(Task("readLoop", "read", "loop", n, <<>>))
  /\ LET r == disconnectBegin(svc, hw, "loop", failW) IN
       /\ svc' = r.svc
       /\ hw' = r.hw
       /\ tasks' = (tasks (-) SetToBag({Task("readLoop", "read", "loop", n, <<>>)}))
                     (+) r.task
       /\ ev' = EvEnd("readDone", r)
  /\ UNCHANGED <<dev, variant, app, now>>

\* The read of reader n rejects: onError, then finally { this.disconnect() }.
ReadError(n, failW) ==
  /\ HasTask(Task("readLoop", "read", "loop", n, <<>>))
  /\ n \notin hw.cancelled
  /\ LET r == disconnectBegin(svc, hw, "loop", failW) IN
       /\ svc' = r.svc
       /\ hw' = r.hw
       /\ tasks' = (tasks (-) SetToBag({Task("readLoop", "read", "loop", n, <<>>)}))
                     (+) r.task
       /\ ev' = EvEnd("readError", r)
  /\ app' = commit(variant, onError(variant, app), app, now)
  /\ UNCHANGED <<dev, variant, now>>

\* await this.reader.cancel().catch(...) of a suspended disconnect resolves.
DisconnectCancelled(t, failR, failW) ==
  /\ HasTask(t)
  /\ t.kind = "disconnect" /\ t.pc = "cancel"
  /\ LET r == disconnectAfterCancel(svc, hw, t.by, t.ops, failR, failW) IN
       /\ svc' = r.svc
       /\ hw' = r.hw
       /\ tasks' = (tasks (-) SetToBag({t})) (+) r.task
       /\ app' = IF r.finished /\ t.by = "user"
                   THEN commit(variant, afterDisconnect(variant, app), app, now)
                   ELSE app
       /\ ev' = EvEnd("disconnectCancelled", r)
  /\ UNCHANGED <<dev, variant, now>>

\* await this.port.close().catch(...) of a suspended disconnect resolves.
DisconnectClosed(t, failC) ==
  /\ HasTask(t)
  /\ t.kind = "disconnect" /\ t.pc = "close"
  /\ LET r == disconnectAfterClose(svc, hw, t.obj, t.ops, failC) IN
       /\ svc' = r.svc
       /\ hw' = r.hw
       /\ tasks' = tasks (-) SetToBag({t})
       /\ app' = IF t.by = "user"
                   THEN commit(variant, afterDisconnect(variant, app), app, now)
                   ELSE app
       /\ ev' = EvEnd("disconnectClosed", r)
  /\ UNCHANGED <<dev, variant, now>>

\* A click on a mode button, Release Snack or Reset Lock.
SendCommand(cmd, writeOk) ==
  /\ app.isConnected
  /\ cmd = <<"OPEN">> => canDispense(variant, app)
  /\ app' = commit(variant, sendCommand(variant, app, svc, cmd, writeOk, now), app, now)
  /\ ev' = [Ev("sendCommand") EXCEPT !.wrote = serviceWrote(svc, cmd),
                                    !.threw = serviceThrows(svc, writeOk)]
  /\ UNCHANGED <<dev, variant, svc, hw, tasks, now>>

\* The user types into the quota field / the lock-duration field.
SetLimitInput(text) ==
  /\ app' = [app EXCEPT !.limitInput = onChangeValue(text)]
  /\ ev' = Ev("setLimitInput")
  /\ UNCHANGED <<dev, variant, svc, hw, tasks, now>>

SetLockDurationInput(text) ==
  /\ app' = [app EXCEPT !.lockDurationInput = onChangeValue(text)]
  /\ ev' = Ev("setLockDurationInput")
  /\ UNCHANGED <<dev, variant, svc, hw, tasks, now>>

\* onSave of the quota card: setVisitLimit, visitLimitRef.current, sendCommand
ApplyLimit(writeOk) ==
  /\ LET a1  == [app EXCEPT !.visitLimit = app.limitInput,
                            !.visitLimitRef = app.limitInput]
         cmd == <<"LIMIT", app.limitInput>> IN
       /\ app' = commit(variant,
                        sendCommand(variant, a1, svc, cmd, writeOk, now), app, now)
       /\ ev' = [Ev("applyLimit") EXCEPT
                   !.wrote = IF app.isConnected THEN serviceWrote(svc, cmd) ELSE <<>>]
  /\ UNCHANGED <<dev, variant, svc, hw, tasks, now>>

\* onSave of the delay card: setLockDuration, sendCommand
ApplyLockDuration(writeOk) ==
  /\ LET a1  == [app EXCEPT !.lockDuration = app.lockDurationInput]
         cmd == <<"LOCKTIME", app.lockDurationInput>> IN
       /\ app' = commit(variant, sendCommand(variant, a1, svc, cmd, writeOk, now),
                        app, now)
       /\ ev' = [Ev("applyLockDuration") EXCEPT
                   !.wrote = IF app.isConnected THEN serviceWrote(svc, cmd) ELSE <<>>]
  /\ UNCHANGED <<dev, variant, svc, hw, tasks, now>>

\* dt milliseconds pass.  A running interval fires at interval + k * 1000; the
\* state after its firings within the step is the state after the last one.
Advance(dt) ==
  /\ now' = now + dt
  /\ (now' - Epoch) \div 60000 <= MaxMinutes
  /\ (now' - Epoch) % 60000 <= MaxHalves * 500
  /\ LET last == IF app.interval = Null THEN Null
                 ELSE app.interval + ((now' - app.interval) \div TickMs) * TickMs
     IN  app' = IF app.interval # Null /\ last > now /\ last > app.interval
                  THEN updateCooldown(variant, app, last)
                  ELSE app
  /\ ev' = Ev("advance")
  /\ UNCHANGED <<dev, variant, svc, hw, tasks>>

----------------------------------------------------------------------------
(* Inputs *)

T_10    == <<"1", "0">>
T_3     == <<"3">>
T_0     == <<"0">>
T_minus3 == <<"-", "3">>
T_empty == <<>>

Line(l) == l \o <<NL>>

\* chunks a device sends while the link is exercised
LinkChunks   == {Line(L_LOCKED), <<"L", "O">>}
LinkCommands == {<<"AUTO">>}

\* chunks a device sends while the reconciliation is exercised: one line each,
\* and two lines in one chunk
ReconcilerChunks ==
  {Line(L_REMAINING_0), Line(L_REMAINING_3),
   Line(L_REMAINING_abc), Line(L_REMAINING_2x), Line(L_LOCKED), Line(L_UNLOCKED),
   Line(L_AUTO_UNLOCKED), Line(L_UNLOCKED) \o Line(L_REMAINING_3)}
ReconcilerCommands == {<<"AUTO">>, <<"OPEN">>, <<"UNLOCK">>}
LimitTexts    == {T_10, T_3}
DurationTexts == {T_0}

DisconnectTasks == {t \in BagToSet(tasks) : t.kind = "disconnect"}

----------------------------------------------------------------------------
(* The link: connecting, reading, disconnecting, writing *)

NextLink ==
  \/ \E f \in BOOLEAN : LogRoom(0) /\ ClickDisconnect(f)
  \/ LogRoom(0) /\ ClickConnect
  \/ \E d \in Devices : PortChosen(d)
  \/ PortRefused
  \/ \E d \in Devices : OpenResolved(d)
  \/ \E d \in Devices : OpenRejected(d)
  \/ \E n \in 1..hw.nsess, c \in LinkChunks, f \in BOOLEAN :
        LogRoom(0) /\ BufferRoom(c) /\ ReadChunk(n, c, f)
  \/ \E n \in 1..hw.nsess, f \in BOOLEAN : ReadDone(n, f)
  \/ \E n \in 1..hw.nsess, f \in BOOLEAN : ReadError(n, f)
  \/ \E t \in DisconnectTasks, fr \in BOOLEAN, fw \in BOOLEAN :
        DisconnectCancelled(t, fr, fw)
  \/ \E t \in DisconnectTasks, f \in BOOLEAN : DisconnectClosed(t, f)
  \/ \E cmd \in LinkCommands, ok \in BOOLEAN : LogRoom(0) /\ SendCommand(cmd, ok)

SpecLink == Init /\ [][NextLink]_vars

----------------------------------------------------------------------------
(* The reconciliation: a connected page, its device lines, commands, settings *)

\* the page after one successful connect
ConnectedApp(v) == afterConnectOk(v, beginConnect(v, InitApp))

InitReconciler ==
  /\ variant \in {"App", "part_000"}
  /\ app = ConnectedApp(variant)
  /\ svc = [port |-> 1, writer |-> 1, reader |-> 1, lineBuffer |-> <<>>]
  /\ hw = [InitHw EXCEPT !.open[1] = TRUE, !.nsess = 1, !.sessPort = <<1>>]
  /\ tasks = SetToBag({Task("readLoop", "read", "loop", 1, <<>>)})
  /\ now = Epoch
  /\ dev = NoDev
  /\ ev = Ev("connected")

BaseLogs == Len(ConnectedApp(variant).logs)

NextReconciler ==
  \/ \E c \in ReconcilerChunks : LogRoom(BaseLogs) /\ ReadChunk(1, c, FALSE)
  \/ \E cmd \in ReconcilerCommands, ok \in BOOLEAN :
        LogRoom(BaseLogs) /\ SendCommand(cmd, ok)
  \/ \E x \in LimitTexts : SetLimitInput(x)
  \/ \E x \in DurationTexts : SetLockDurationInput(x)
  \/ LogRoom(BaseLogs) /\ ApplyLimit(TRUE)
  \/ LogRoom(BaseLogs) /\ ApplyLockDuration(TRUE)
  \/ Advance(60000)

SpecReconciler == InitReconciler /\ [][NextReconciler]_vars

----------------------------------------------------------------------------
(* The framing: one byte stream, cut into read chunks at any places *)

S_REMAINING_LOCKED == Line(L_REMAINING_2) \o Line(L_LOCKED)
S_BLANKS ==
  <<"L", "O", "C", "K", "E", "D", "\r", "\n", "\n", " ", "U", "N", "L", "O", "C",
    "K", "E", "D", " ", "\n", "R", "E">>

\* a line of spaces and a line of one carriage return between two messages
S_SPACES ==
  Line(L_LOCKED) \o <<" ", " ", "\n", "\r", "\n">> \o Line(L_UNLOCKED)
\* a count, its reset and the same count again
S_VISITS == Line(L_REMAINING_3) \o Line(L_UNLOCKED) \o Line(L_REMAINING_3)

FramerStreams == {S_REMAINING_LOCKED, S_BLANKS, S_SPACES, S_VISITS}

InitFramer ==
  /\ variant \in {"App", "part_000"}
  /\ app = ConnectedApp(variant)
  /\ svc = [port |-> 1, writer |-> 1, reader |-> 1, lineBuffer |-> <<>>]
  /\ hw = [InitHw EXCEPT !.open[1] = TRUE, !.nsess = 1, !.sessPort = <<1>>]
  /\ tasks = SetToBag({Task("readLoop", "read", "loop", 1, <<>>)})
  /\ now = Epoch
  /\ \E s \in FramerStreams : dev = [sent |-> s, wire |-> s, heard |-> <<>>]
  /\ ev = Ev("connected")

\* The next k bytes of the stream arrive as one chunk.
Feed(k) ==
  /\ k \in 1..Len(dev.wire)
  /\ ReadBody(1, SubSeq(dev.wire, 1, k), FALSE)
  /\ dev' = [dev EXCEPT !.wire = SubSeq(dev.wire, k + 1, Len(dev.wire)),
                        !.heard = @ \o ev'.lines]

NextFramer == \E k \in 1..Len(dev.wire) : Feed(k)

SpecFramer == InitFramer /\ [][NextFramer]_vars

----------------------------------------------------------------------------
(* The cooldown clock: a connected page, quota lines, and time in half seconds *)

ClockChunks == {Line(L_REMAINING_5), Line(L_REMAINING_0), Line(L_UNLOCKED)}
ClockSteps  == {500, 60000}

NextClock ==
  \/ \E c \in ClockChunks : LogRoom(BaseLogs + 1) /\ ReadChunk(1, c, FALSE)
  \/ \E dt \in ClockSteps : Advance(dt)

SpecClock == InitReconciler /\ [][NextClock]_vars

----------------------------------------------------------------------------
(* The bounded lists: a page whose log and visit list are full or nearly so *)

\* one round of a day's device lines: three visits, then the unlock
RingRound == <<L_REMAINING_3, L_REMAINING_2, L_REMAINING_0, L_UNLOCKED>>

RECURSIVE rounds(_)
rounds(n) == IF n = 0 THEN <<>> ELSE RingRound \o rounds(n - 1)

\* the page after the lines arrived one chunk each, all at time t
RECURSIVE replay(_, _, _, _)
replay(v, a, lines, t) ==
  IF lines = <<>> THEN a
  ELSE replay(v, commit(v, onData(v, a, Head(lines), t), a, t), Tail(lines), t)

\* those lines' log entries and visits, newest first
RoundLogs(v) ==
  <<<<"Device: ", L_UNLOCKED>>>>
    \o (IF v = "App" THEN <<>> ELSE <<<<"Device confirmed: System Unlocked">>>>)
    \o <<<<"Visit recorded: ", 5, DEFAULT_LIMIT>>, <<"Device: ", L_REMAINING_0>>,
         <<"Visit recorded: ", 3, DEFAULT_LIMIT>>, <<"Device: ", L_REMAINING_2>>,
         <<"Visit recorded: ", 2, DEFAULT_LIMIT>>, <<"Device: ", L_REMAINING_3>>>>
RoundVisits(t) ==
  <<[id |-> t, count |-> 5], [id |-> t, count |-> 3], [id |-> t, count |-> 2]>>

RECURSIVE repeat(_, _)
repeat(q, n) == IF n = 0 THEN <<>> ELSE q \o repeat(q, n - 1)

\* the page after n rounds arrived, one chunk a line, all at time t
FullPage(v, n, t) ==
  LET logs   == repeat(RoundLogs(v), n) \o ConnectedApp(v).logs
      visits == repeat(RoundVisits(t), n)
  IN  [ConnectedApp(v) EXCEPT
         !.logs         = SubSeq(logs, 1, Min(LogCap, Len(logs))),
         !.visitHistory = SubSeq(visits, 1, Min(VisitCap, Len(visits)))]

RingRounds  == {6, 7}      \* 18 visits (two under the cap) or 21 (over it)
ShortRounds == {1, 2}      \* the rounds replayed line by line
RingStreams ==
  {Line(L_REMAINING_3) \o Line(L_REMAINING_2) \o Line(L_REMAINING_0),
   Line(L_REMAINING_0) \o Line(L_UNLOCKED) \o Line(L_REMAINING_3)}

InitRings ==
  /\ variant \in {"App", "part_000"}
  /\ \A m \in ShortRounds :
       FullPage(variant, m, Epoch)
         = replay(variant, ConnectedApp(variant), rounds(m), Epoch)
  /\ \E n \in RingRounds : app = FullPage(variant, n, Epoch)
  /\ svc = [port |-> 1, writer |-> 1, reader |-> 1, lineBuffer |-> <<>>]
  /\ hw = [InitHw EXCEPT !.open[1] = TRUE, !.nsess = 1, !.sessPort = <<1>>]
  /\ tasks = SetToBag({Task("readLoop", "read", "loop", 1, <<>>)})
  /\ now = Epoch
  /\ \E s \in RingStreams : dev = [sent |-> s, wire |-> s, heard |-> <<>>]
  /\ ev = Ev("connected")

NextRings ==
  \/ \E k \in 1..Len(dev.wire) : Feed(k)
  \/ Advance(60000)

SpecRings == InitRings /\ [][NextRings]_vars

----------------------------------------------------------------------------
(* The inputs: lines that are no message, and texts typed into the quota field *)

InputChunks     ==
  {Line(L_XREMAINING_3), Line(L_HELLO), Line(L_REMAINING_0), Line(L_REMAINING_neg1)}
InputLimitTexts == {T_0, T_empty, T_minus3, T_10}

NextInputs ==
  \/ \E c \in InputChunks : LogRoom(BaseLogs) /\ ReadChunk(1, c, FALSE)
  \/ \E x \in InputLimitTexts : SetLimitInput(x)
  \/ LogRoom(BaseLogs) /\ ApplyLimit(TRUE)

SpecInputs == InitReconciler /\ [][NextInputs]_vars

----------------------------------------------------------------------------
(* The whole program, from construction *)

Next ==
  \/ \E f \in BOOLEAN : ClickDisconnect(f)
  \/ ClickConnect
  \/ \E d \in Devices : PortChosen(d)
  \/ PortRefused
  \/ \E d \in Devices : OpenResolved(d)
  \/ \E d \in Devices : OpenRejected(d)
  \/ \E n \in 1..hw.nsess, c \in LinkChunks \cup ReconcilerChunks, f \in BOOLEAN :
        LogRoom(0) /\ BufferRoom(c) /\ ReadChunk(n, c, f)
  \/ \E n \in 1..hw.nsess, f \in BOOLEAN : ReadDone(n, f)
  \/ \E n \in 1..hw.nsess, f \in BOOLEAN : ReadError(n, f)
  \/ \E t \in DisconnectTasks, fr \in BOOLEAN, fw \in BOOLEAN :
        DisconnectCancelled(t, fr, fw)
  \/ \E t \in DisconnectTasks, f \in BOOLEAN : DisconnectClosed(t, f)
  \/ \E cmd \in LinkCommands \cup ReconcilerCommands, ok \in BOOLEAN :
        LogRoom(0) /\ SendCommand(cmd, ok)
  \/ \E x \in LimitTexts : SetLimitInput(x)
  \/ \E x \in DurationTexts : SetLockDurationInput(x)
  \/ \E ok \in BOOLEAN : LogRoom(0) /\ ApplyLimit(ok)
  \/ \E ok \in BOOLEAN : LogRoom(0) /\ ApplyLockDuration(ok)
  \/ \E dt \in {500, 60000} : Advance(dt)

Spec == Init /\ [][Next]_vars

----------------------------------------------------------------------------
(* Properties *)

LastLine == ev.lines[Len(ev.lines)]

\* a line REMAINING:<digits>, and the number it carries
WellFormedRemaining(l) ==
  /\ Len(l) > Len(K_REMAINING)
  /\ SubSeq(l, 1, Len(K_REMAINING)) = K_REMAINING
  /\ \A i \in (Len(K_REMAINING) + 1)..Len(l) : l[i] \in Digits
RemainingOf(l) == digitsPrefix(SubSeq(l, Len(K_REMAINING) + 1, Len(l)), 0)

\* a line REMAINING:<text> whose text is no integer (a sign, then digits only)
MalformedRemaining(l) ==
  /\ Len(l) >= Len(K_REMAINING)
  /\ SubSeq(l, 1, Len(K_REMAINING)) = K_REMAINING
  /\ LET rest   == SubSeq(l, Len(K_REMAINING) + 1, Len(l))
         digits == IF rest # <<>> /\ rest[1] \in {"-", "+"} THEN Tail(rest) ELSE rest
     IN  digits = <<>> \/ \E i \in 1..Len(digits) : digits[i] \notin Digits

HasLog(tag, text) ==
  \E i \in 1..Len(app.logs) :
     /\ Len(app.logs[i]) = 2
     /\ app.logs[i][1] = tag
     /\ app.logs[i][2] = text

\* C1: after a chunk whose last line is REMAINING:r (r >= 0) is processed, count
\* is max(0, L - r) for the limit L >= 1 that apply-limit set last, however
\* apply-limit actions and inbound lines interleave.
C1_CountFromLiveLimit ==
  (ev.op = "read" /\ ev.lines # <<>> /\ WellFormedRemaining(LastLine)
     /\ app.visitLimit >= 1)
    => app.count = Max(0, app.visitLimit - RemainingOf(LastLine))

\* limit 5, apply 10, then REMAINING:3 gives count 7
C1_Witness ==
  /\ ev.op = "read" /\ ev.lines # <<>> /\ LastLine = L_REMAINING_3
  /\ app.visitLimit = 10
  /\ app.count = 7

\* C2: once lastSnackTime is set, a chunk of REMAINING:0 / LOCKED lines leaves
\* it at the time it was first set.
C2_AnchorKeptByRepeatedSignal ==
  [][(/\ Truthy(app.lastSnackTime)
      /\ ev'.op = "read" /\ ev'.lines # <<>>
      /\ \A i \in 1..Len(ev'.lines) : ev'.lines[i] \in {L_REMAINING_0, L_LOCKED})
       => app'.lastSnackTime = app.lastSnackTime]_vars

Consumed == SubSeq(dev.sent, 1, Len(dev.sent) - Len(dev.wire))

\* C3: however the stream is cut into chunks, the lines delivered so far are
\* the lines of the bytes received so far taken as one chunk; the stream
\* REMAINING:2\nLOCKED\n gives exactly REMAINING:2, LOCKED.
C3_FramingIgnoresChunking ==
  /\ dev.heard = emitted(frameLines(Consumed))
  /\ (dev.sent = S_REMAINING_LOCKED /\ dev.wire = <<>>)
       => dev.heard = <<L_REMAINING_2, L_LOCKED>>

\* the stream came in several chunks, the last one completing LOCKED
C3_Witness ==
  /\ dev.sent = S_REMAINING_LOCKED /\ dev.wire = <<>>
  /\ dev.heard = <<L_REMAINING_2, L_LOCKED>>
  /\ ev.lines = <<L_LOCKED>>

\* C4: after a chunk whose last line is UNLOCKED is processed, count is 0,
\* isLocked is false, lastSnackTime is null and the cooldown shown is 0.
C4_UnlockedResets ==
  (ev.op = "read" /\ ev.lines # <<>> /\ LastLine = L_UNLOCKED)
    => /\ app.count = 0
       /\ ~app.isLocked
       /\ app.lastSnackTime = Null
       /\ app.cooldownSeconds = 0

\* UNLOCKED arrives after REMAINING:0 had locked the gate and recorded visits
C4_Witness ==
  /\ ev.op = "read" /\ ev.lines = <<L_UNLOCKED>>
  /\ HasLog("Device: ", L_REMAINING_0)
  /\ app.visitHistory # <<>>
  /\ app.count = 0 /\ ~app.isLocked /\ app.lastSnackTime = Null

\* C5: a line REMAINING:<text> whose text is no integer changes nothing of the
\* state and is appended to the log.
C5_MalformedRemainingIgnored ==
  [][(ev'.op = "read" /\ Len(ev'.lines) = 1 /\ MalformedRemaining(ev'.lines[1]))
       => /\ app'.count = app.count
          /\ app'.isLocked = app.isLocked
          /\ app'.lastSnackTime = app.lastSnackTime
          /\ app'.visitLimit = app.visitLimit
          /\ app'.currentMode = app.currentMode
          /\ app'.visitHistory = app.visitHistory
          /\ app'.logs = <<<<"Device: ", ev'.lines[1]>>>> \o app.logs]_vars

\* C6: when the write of a command fails, the page is marked disconnected.
C6_WriteFailureDisconnects ==
  (ev.op = "sendCommand" /\ ev.threw) => ~app.isConnected

\* the readers that have a read loop and can still deliver
ActiveSessions ==
  {n \in 1..hw.nsess : Live(n) /\ HasTask(Task("readLoop", "read", "loop", n, <<>>))}

\* C7: at most one session is active, and connect opens no session while a
\* disconnect of an earlier one is still running.
C7_OneSessionNoOverlap ==
  /\ Cardinality(ActiveSessions) <= 1
  /\ ev.op = "connected" => DisconnectTasks = {}

Rank(op) ==
  CASE op = "cancel" -> 1 [] op = "releaseReader" -> 2
    [] op = "releaseWriter" -> 3 [] op = "close" -> 4

InOrder(ops) == \A i, j \in 1..Len(ops) : i < j => Rank(ops[i]) < Rank(ops[j])

\* C8: a disconnect takes its steps in the order cancel, release reader,
\* release writer, close; whichever step fails, it ends without an error for
\* its caller and with port, reader, writer null and the line buffer empty.
C8_TeardownOrderedAndComplete ==
  /\ \A t \in DisconnectTasks : InOrder(t.ops)
  /\ InOrder(ev.teardown)
  /\ ev.finished =>
       /\ ~ev.threw
       /\ svc.port = Null /\ svc.reader = Null /\ svc.writer = Null
       /\ svc.lineBuffer = <<>>

\* a disconnect whose release of the reader lock threw, after pending text
C8_Witness ==
  /\ ev.finished
  /\ ev.teardown = <<"cancel", "releaseReader">>
  /\ svc.port = Null /\ svc.lineBuffer = <<>>

\* C9: the line AUTO UNLOCKED has the effect of the line UNLOCKED on count,
\* isLocked and lastSnackTime.
C9_AutoUnlockedIsUnlocked ==
  [][(ev'.op = "read" /\ ev'.lines = <<L_AUTO_UNLOCKED>>)
       => LET u == commit(variant, onData(variant, app, L_UNLOCKED, now), app, now)
          IN  /\ app'.count = u.count
              /\ app'.isLocked = u.isLocked
              /\ app'.lastSnackTime = u.lastSnackTime]_vars

\* C10: after a chunk whose last line is REMAINING:r with r > 0 is processed,
\* isLocked is false and lastSnackTime is null.
C10_PositiveRemainingUnlocks ==
  (ev.op = "read" /\ ev.lines # <<>> /\ WellFormedRemaining(LastLine)
     /\ RemainingOf(LastLine) > 0)
    => ~app.isLocked /\ app.lastSnackTime = Null


\* C11: after a LOCKED line is processed isLocked is true and lastSnackTime is
\* set: to the time of processing when it was unset, else as it was.
C11_LockedSetsAnchor ==
  [][(ev'.op = "read" /\ ev'.lines = <<L_LOCKED>>)
       => /\ app'.isLocked
          /\ app'.lastSnackTime =
               IF Truthy(app.lastSnackTime) THEN app.lastSnackTime ELSE now']_vars

\* C12: in every reachable state lastSnackTime is set exactly when isLocked.
C12_AnchorIffLocked == Truthy(app.lastSnackTime) <=> app.isLocked

CommandOps == {"sendCommand", "applyLimit", "applyLockDuration"}

\* C13: a step that issues an outbound command leaves isLocked, count and
\* lastSnackTime as they were.
C13_CommandsKeepLockState ==
  [][ev'.op \in CommandOps
       => /\ app'.isLocked = app.isLocked
          /\ app'.count = app.count
          /\ app'.lastSnackTime = app.lastSnackTime]_vars

\* C14: during a lockout, once lockDuration * 60 seconds (and one tick period)
\* have passed since lastSnackTime, the cooldown shown is 0; it is never
\* negative.
C14_CooldownReachesZero ==
  /\ app.cooldownSeconds >= 0
  /\ (app.isLocked /\ Truthy(app.lastSnackTime)
        /\ now - app.lastSnackTime >= app.lockDuration * 60 * 1000 + TickMs)
       => app.cooldownSeconds = 0

\* UNLOCKED, or a REMAINING: line that does not say 0
ClearsAnchor(l) ==
  \/ l = L_UNLOCKED
  \/ /\ Len(l) > Len(K_REMAINING)
     /\ SubSeq(l, 1, Len(K_REMAINING)) = K_REMAINING
     /\ ~(WellFormedRemaining(l) /\ RemainingOf(l) = 0)

\* C16: the passing of time leaves lastSnackTime, isLocked and count as they
\* were, and lastSnackTime goes from set to unset only in a step that
\* processes UNLOCKED or REMAINING:r with r > 0.
C16_AnchorClearedOnlyByDevice ==
  [][/\ ev'.op = "advance"
          => /\ app'.lastSnackTime = app.lastSnackTime
             /\ app'.isLocked = app.isLocked
             /\ app'.count = app.count
     /\ (Truthy(app.lastSnackTime) /\ ~Truthy(app'.lastSnackTime))
          => /\ ev'.op = "read"
             /\ \E i \in 1..Len(ev'.lines) : ClearsAnchor(ev'.lines[i])]_vars

\* C17: whenever lastSnackTime is unset the cooldown shown is 0 and no interval
\* is running.
C17_NoAnchorNoCooldown ==
  ~Truthy(app.lastSnackTime) => app.cooldownSeconds = 0 /\ app.interval = Null

\* the anchor was cleared by UNLOCKED a minute or more into a lockout
C17_Witness ==
  /\ ev.op = "read" /\ ev.lines = <<L_UNLOCKED>>
  /\ HasLog("Device: ", L_REMAINING_0)
  /\ now > Epoch
  /\ ~Truthy(app.lastSnackTime) /\ app.cooldownSeconds = 0 /\ app.interval = Null

\* the events of a chunk that make count strictly greater than before them
RECURSIVE increases(_, _, _, _)
increases(v, a, lines, t) ==
  IF lines = <<>> THEN <<>>
  ELSE LET b == onData(v, a, Head(lines), t) IN
       (IF b.count > a.count THEN <<b.count>> ELSE <<>>)
         \o increases(v, b, Tail(lines), t)

\* C18: a chunk appends one visit for each of its lines that makes count
\* strictly greater than before that line, and the newest visit carries the
\* count of the last such line.
C18_VisitPerIncrease ==
  [][ev'.op = "read"
       => LET inc == increases(variant, app, ev'.lines, now) IN
          /\ Len(app'.visitHistory) = Len(app.visitHistory) + Len(inc)
          /\ inc # <<>> => app'.visitHistory[1].count = inc[Len(inc)]]_vars

\* C20: a step in which a read rejects leaves the page disconnected with the
\* error logged first, has disconnect() started on the service's reader or
\* finished, and starts no connect; only a click on Connect starts one.
C20_ReadErrorDisconnects ==
  [][/\ ev'.op = "readError"
          => /\ ~app'.isConnected
             /\ app'.logs # <<>>
             /\ app'.logs[1][1] \in {"Error: ", "Connection Lost: "}
             /\ svc.reader # Null => svc.reader \in hw'.cancelled
             /\ \/ ev'.finished
                \/ \E t \in BagToSet(tasks') : t.kind = "disconnect" /\ t.by = "loop"
     /\ \A t \in BagToSet(tasks') :
          (t.kind = "connect" /\ t.pc = "requestPort"
             /\ CopiesIn(t, tasks') > CopiesIn(t, tasks))
            => ev'.op = "clickConnect"]_vars

\* a read of a connected session rejected and its teardown is under way
C20_Witness ==
  /\ ev.op = "readError"
  /\ ~app.isConnected
  /\ \E t \in DisconnectTasks : t.by = "loop" /\ t.pc = "cancel"
  /\ \A t \in BagToSet(tasks) : t.kind # "connect"


IsDeviceLog(e) == e[1] = "Device: "

\* the device lines logged, newest first
DeviceLines ==
  LET sel == SelectSeq(app.logs, IsDeviceLog) IN [i \in 1..Len(sel) |-> sel[i][2]]

\* C15: with limit 5 and lock duration 2, from the initial state: after
\* REMAINING:5 count is 0 and isLocked false; after REMAINING:0 next, count is 5,
\* isLocked true and lastSnackTime the time of that line; a tick 61 seconds
\* after it shows 59; after UNLOCKED next, count is 0, isLocked false and the
\* cooldown shown 0.
C15_ScenarioA ==
  /\ (ev.op = "read" /\ ev.lines = <<L_REMAINING_5>>
        /\ DeviceLines = <<L_REMAINING_5>>)
       => app.count = 0 /\ ~app.isLocked
  /\ (ev.op = "read" /\ ev.lines = <<L_REMAINING_0>>
        /\ DeviceLines = <<L_REMAINING_0, L_REMAINING_5>>)
       => app.count = 5 /\ app.isLocked /\ app.lastSnackTime = now
  /\ (ev.op = "advance" /\ DeviceLines = <<L_REMAINING_0, L_REMAINING_5>>
        /\ now - app.lastSnackTime = 61000)
       => app.cooldownSeconds = 59
  /\ (ev.op = "read" /\ ev.lines = <<L_UNLOCKED>>
        /\ DeviceLines = <<L_UNLOCKED, L_REMAINING_0, L_REMAINING_5>>)
       => app.count = 0 /\ ~app.isLocked /\ app.cooldownSeconds = 0

\* the end of the scenario: UNLOCKED 61 seconds or more after REMAINING:0
C15_Witness ==
  /\ ev.op = "read" /\ ev.lines = <<L_UNLOCKED>>
  /\ DeviceLines = <<L_UNLOCKED, L_REMAINING_0, L_REMAINING_5>>
  /\ Len(app.visitHistory) = 1
  /\ now - app.visitHistory[1].id >= 61000
  /\ app.count = 0 /\ ~app.isLocked /\ app.cooldownSeconds = 0


\* new is old with its k newest entries put in front and its oldest entries
\* dropped as far as the capacity demands
Appended(new, old, cap, k) ==
  /\ k <= Len(new)
  /\ new = SubSeq(new, 1, k) \o SubSeq(old, 1, Min(Len(old), cap - k))

Reverse(q) == [i \in 1..Len(q) |-> q[Len(q) + 1 - i]]

StartsWith(l, k) == Len(l) >= Len(k) /\ SubSeq(l, 1, Len(k)) = k

\* C21: a line that is none of LOCKED, UNLOCKED, AUTO UNLOCKED and does not
\* begin with REMAINING: leaves count, isLocked, lastSnackTime, the limit and
\* the mode as they were, and is logged.
C21_OtherTextIgnored ==
  [][(/\ ev'.op = "read" /\ Len(ev'.lines) = 1
      /\ ev'.lines[1] \notin {L_LOCKED, L_UNLOCKED, L_AUTO_UNLOCKED}
      /\ ~StartsWith(ev'.lines[1], K_REMAINING))
       => /\ app'.count = app.count
          /\ app'.isLocked = app.isLocked
          /\ app'.lastSnackTime = app.lastSnackTime
          /\ app'.visitLimit = app.visitLimit
          /\ app'.currentMode = app.currentMode
          /\ app'.logs = <<<<"Device: ", ev'.lines[1]>>>> \o app.logs]_vars

\* C22: the lines reach onData in the order of their bytes, and count,
\* isLocked and lastSnackTime after them are what the lines give when they are
\* applied one at a time in that order.
C22_AppliedInOrder ==
  LET one == replay(variant, ConnectedApp(variant), dev.heard, now) IN
  /\ dev.heard = emitted(frameLines(Consumed))
  /\ app.count = one.count
  /\ app.isLocked = one.isLocked
  /\ app.lastSnackTime = one.lastSnackTime

\* C24: the applied limit is 1 or more in every reachable state.
C24_LimitAtLeastOne == app.visitLimit >= 1


\* C23: saving the lock duration sets lockDuration to the value entered and
\* leaves lastSnackTime, isLocked, count and the limit as they were; saving the
\* limit sets the limit to the value entered and leaves count, isLocked,
\* lastSnackTime and lockDuration as they were.
C23_SettingsChangeOwnField ==
  [][/\ ev'.op = "applyLockDuration"
          => /\ app'.lockDuration = app.lockDurationInput
             /\ app'.visitLimit = app.visitLimit
             /\ app'.lastSnackTime = app.lastSnackTime
             /\ app'.isLocked = app.isLocked
             /\ app'.count = app.count
     /\ ev'.op = "applyLimit"
          => /\ app'.visitLimit = app.limitInput
             /\ app'.lockDuration = app.lockDuration
             /\ app'.lastSnackTime = app.lastSnackTime
             /\ app'.isLocked = app.isLocked
             /\ app'.count = app.count]_vars

\* a limit of 10 saved during a lockout at count 5
C23_Witness ==
  /\ ev.op = "applyLimit"
  /\ app.visitLimit = 10
  /\ app.isLocked /\ app.count = 5 /\ Truthy(app.lastSnackTime)

\* C27: what a command that was sent put on the wire is the command's text
\* (as the log shows it) followed by one newline and nothing else.
C27_CommandThenNewline ==
  (ev.op \in CommandOps /\ ev.wrote # <<>> /\ ~ev.threw)
    => \E i \in 1..Min(2, Len(app.logs)) :
         /\ Len(app.logs[i]) = 2
         /\ app.logs[i][1] \in {"Cmd: ", "Sent: "}
         /\ Len(ev.wrote) = Len(app.logs[i][2]) + 1
         /\ ev.wrote = app.logs[i][2] \o <<"\n">>

\* the limit 10 was sent
C27_Witness ==
  /\ ev.op = "applyLimit"
  /\ ev.wrote = <<"LIMIT", 10, "\n">>


Closed(s) ==
  s.port = Null /\ s.reader = Null /\ s.writer = Null /\ s.lineBuffer = <<>>

DisconnectCalls == {"clickDisconnect", "readDone", "readError"}

\* C25: a run of disconnect that ends, ends without an error and with the
\* service closed, also when another run went before or beside it; called on
\* the closed service it ends at once, attempts no step and changes nothing.
C25_DisconnectIdempotent ==
  [][/\ ev'.finished => ~ev'.threw /\ Closed(svc')
     /\ (Closed(svc) /\ ev'.op \in DisconnectCalls)
          => /\ ev'.finished
             /\ ev'.teardown = <<>>
             /\ hw' = hw
             /\ \A t \in BagToSet(tasks') :
                  t.kind = "disconnect" => CopiesIn(t, tasks') <= CopiesIn(t, tasks)]_vars

\* the read loop's disconnect, called after the user's disconnect had ended
C25_Witness ==
  /\ ev.op = "readDone"
  /\ ev.finished /\ ev.teardown = <<>> /\ ~ev.threw
  /\ Closed(svc)
  /\ ~app.isConnected

\* C26: when a session starts reading, the pending text is empty.
C26_FreshBufferPerSession == ev.op = "connected" => svc.lineBuffer = <<>>

Blank(l) == \A i \in 1..Len(l) : IsSpace(l[i])

\* C28: no line delivered is blank, the device lines logged are the lines
\* delivered, a chunk that completes blank lines only changes nothing of the
\* page, and the messages around blank lines arrive whole.
C28_BlankLinesDropped ==
  [][/\ \A i \in 1..Len(dev'.heard) : ~Blank(dev'.heard[i])
     /\ Len(SelectSeq(app'.logs, IsDeviceLog)) = Len(dev'.heard)
     /\ \A i \in 1..Len(dev'.heard) :
          SelectSeq(app'.logs, IsDeviceLog)[i]
            = <<"Device: ", dev'.heard[Len(dev'.heard) + 1 - i]>>
     /\ ev'.lines = <<>> => app' = app
     /\ (dev'.sent = S_SPACES /\ dev'.wire = <<>>)
          => dev'.heard = <<L_LOCKED, L_UNLOCKED>>
     /\ (dev'.sent = S_BLANKS /\ Len(dev'.wire) <= 2)
          => dev'.heard = <<L_LOCKED, L_UNLOCKED>>]_vars

\* the chunk before completed the two blank lines between LOCKED and UNLOCKED
C28_Witness ==
  /\ dev.sent = S_SPACES
  /\ dev.wire = Line(L_UNLOCKED)
  /\ ev.op = "read" /\ ev.lines = <<>>
  /\ dev.heard = <<L_LOCKED>>

\* C29: a run of disconnect that started on an open port has called the
\* port's close by the time it ends.
C29_CloseAlwaysAttempted ==
  [][(ev'.finished /\ svc.port # Null /\ hw.open[svc.port])
       => \E i \in 1..Len(ev'.teardown) : ev'.teardown[i] = "close"]_vars

\* C30: with nothing pending and the service holding no reader and no writer,
\* the page does not show connected.
C30_QuiescentShowsDisconnected ==
  (tasks = EmptyBag /\ svc.reader = Null /\ svc.writer = Null) => ~app.isConnected

\* the sessions a run of disconnect was started for: those whose reader a
\* disconnect has cancelled
Disconnecting(h) == h.cancelled

\* the sessions whose port is d
SessionsOn(h, d) == {m \in 1..h.nsess : h.sessPort[m] = d}

\* C31: no step of a disconnect releases the reader, closes the port or clears
\* the service's fields of a session for which no disconnect was started.
C31_DisconnectSparesLaterSession ==
  [][/\ \A m \in hw'.released \ hw.released : m \in Disconnecting(hw)
     /\ \A d \in Devices : (hw.open[d] /\ ~hw'.open[d])
          => \A m \in SessionsOn(hw, d) : m \in Disconnecting(hw)
     /\ (ev'.finished /\ svc.reader # Null) => svc.reader \in Disconnecting(hw')]_vars

\* the steps in which connect() returns false
FailedConnectOps == {"portRefused", "connectFailed"}

\* C32: after a connect that failed, with no session ever established and
\* nothing else pending, the service holds no port, writer or reader and no
\* port is open.
C32_FailedConnectLeavesNothing ==
  (ev.op \in FailedConnectOps /\ hw.nsess = 0 /\ tasks = EmptyBag)
    => /\ svc.port = Null /\ svc.writer = Null /\ svc.reader = Null
       /\ \A d \in Devices : ~hw.open[d]

\* the entries a step put on top of the log
NewLogs(new, old) == SubSeq(new, 1, Len(new) - Len(old))

SentTags == {"Cmd: ", "Sent: "}

\* C33: a command whose bytes did not reach a writer (there was none, or the
\* write failed) leaves the displayed mode as it was and logs no "sent" entry.
C33_SentOnlyIfWritten ==
  [][(ev'.op \in CommandOps /\ (ev'.wrote = <<>> \/ ev'.threw))
       => /\ app'.currentMode = app.currentMode
          /\ \A i \in 1..Len(NewLogs(app'.logs, app.logs)) :
               app'.logs[i][1] \notin SentTags]_vars

\* C34: saving a lock duration during a lockout keeps the anchor, and after
\* the clock step that follows the save the cooldown shown is
\* max(0, lockDuration * 60 - whole seconds since the anchor).
C34_DurationChangeTakesEffect ==
  [][/\ (ev'.op = "applyLockDuration" /\ app.isLocked /\ Truthy(app.lastSnackTime))
          => app'.lastSnackTime = app.lastSnackTime
     /\ (ev.op = "applyLockDuration" /\ ev'.op = "advance"
           /\ app.isLocked /\ Truthy(app.lastSnackTime))
          => app'.cooldownSeconds =
               Max(0, app.lockDuration * 60
                        - (now' - app.lastSnackTime) \div 1000)]_vars

\* C35: the count is never negative and never above the limit.
C35_CountWithinLimit == 0 <= app.count /\ app.count <= app.visitLimit

====
